---- MODULE Spec2Model ----
(***************************************************************************)
(* Model of the validator-fields prover of eigenpod-proofs-generation      *)
(* (package eigenpodproofs: ProveValidatorContainers, ProveValidatorFields,*)
(* ProveValidatorAgainstBeaconState, ProveValidatorAgainstValidatorList)   *)
(* together with the collaborators those functions call: the Merkle tree   *)
(* builder, the beacon-state top-level roots and the validator-tree cache. *)
(*                                                                         *)
(* Roots are symbolic: a 32-byte chunk is <<"B", bytes>>, the SHA-256 of a *)
(* pair of roots is the term <<"H", l, r>> (an injective hash), the        *)
(* hash-tree-root of a validator container is <<"V", validator>> and the   *)
(* root of a beacon-state field other than `validators` is                 *)
(* <<"F", slot, field>>.  Every root is a tuple that starts with its tag.  *)
(***************************************************************************)
EXTENDS Integers, Sequences, FiniteSets, TLC

(***************************************************************************)
(* Bounds of the model.                                                    *)
(***************************************************************************)
\* Depth of the validator-list tree.  The program uses 40 (capacity 2^40);
\* the model keeps the depth a parameter and checks a small one.
ValidatorListMerkleSubtreeNumLayers == 3
\* Longest validatorIndices list a call is given.
MaxIndices == 2
\* The clock advances in steps of TickStep seconds, at most MaxTicks times.
TickStep == 150
MaxTicks == 3
\* Largest Validator.Index in a map given to SortByStatus.
MaxValidatorIndex == 3

(***************************************************************************)
(* Program constants.                                                      *)
(***************************************************************************)
\* (ten minutes for the five the prover is constructed with)
CacheExpiryTenMinutes == 2 * 300

\* NewEigenPodProofs(chainId, 300 /* oracleStateCacheExpirySeconds */)
oracleStateCacheExpirySeconds == 300
\* beacon.ValidatorListIndex: position of `validators` in the BeaconState
ValidatorListIndex == 11
\* Number of fields of the (Deneb) BeaconState container and its tree depth
BeaconStateNumFields == 28
BeaconStateMerkleSubtreeNumLayers == 5
\* Width of a chunk in bytes
ChunkBytes == 32
\* Seconds per slot and the genesis time used by GetSlotTimestamp
SecondsPerSlot == 12
GenesisTime == 1606824023

\* cli/core: the status of a validator in the pod
ValidatorStatusInactive == 0
ValidatorStatusActive == 1
ValidatorStatusWithdrawn == 2

Pow2(n) == 2 ^ n

(***************************************************************************)
(* SSZ primitives                                                          *)
(***************************************************************************)
\* A sequence given as a function, as a tuple (TLC then evaluates it once)
Tuple(s) == SubSeq(s, 1, Len(s))

Reverse(s) == Tuple([k \in 1..Len(s) |-> s[Len(s) + 1 - k]])

\* big.Int.Bytes(): the big-endian bytes of n, without leading zeros
RECURSIVE BigEndianBytes(_)
BigEndianBytes(n) == IF n = 0 THEN <<>> ELSE Append(BigEndianBytes(n \div 256), n % 256)

\* BigToLittleEndian: the bytes reversed, zero-padded on the right to one chunk
BigToLittleEndian(n) ==
    LET le == Reverse(BigEndianBytes(n))
    IN  <<"B", Tuple([k \in 1..ChunkBytes |-> IF k <= Len(le) THEN le[k] ELSE 0])>>

\* The zero leaf: 32 zero bytes
ZeroLeaf == <<"B", Tuple([k \in 1..ChunkBytes |-> 0])>>

\* sha256(l || r), as an injective term
HashPair(l, r) == <<"H", l, r>>

MixInLength(root, n) == HashPair(root, BigToLittleEndian(n))

(***************************************************************************)
(* Merkle tree builder                                                     *)
(***************************************************************************)
\* The layers of the tree of the given depth over the leaves zero-padded to
\* 2^depth: layers[1] are the leaves, layers[depth + 1] is <<root>>.
RECURSIVE BuildLayers(_, _)
BuildLayers(layer, depth) ==
    IF depth = 0 THEN <<layer>>
    ELSE <<layer>> \o BuildLayers(Tuple([k \in 1..(Len(layer) \div 2) |->
                                           HashPair(layer[2 * k - 1], layer[2 * k])]),
                                   depth - 1)

ComputeMerkleTreeFromLeaves(leaves, depth) ==
    BuildLayers(Tuple([k \in 1..Pow2(depth) |-> IF k <= Len(leaves) THEN leaves[k] ELSE ZeroLeaf]),
                depth)

MerkleRoot(tree) == tree[Len(tree)][1]

\* The sibling of position idx (0-based) in a layer
Sibling(layer, idx) == layer[(IF idx % 2 = 0 THEN idx + 1 ELSE idx - 1) + 1]

Err(kind) == [ok |-> FALSE, err |-> kind]
Ok(v) == [ok |-> TRUE, val |-> v]

\* proof(i): at each level k from 0 to depth-1 the sibling of the ancestor of
\* leaf i; i >= 2^depth fails.
ComputeMerkleProofFromTree(tree, index, depth) ==
    IF index >= Pow2(depth) THEN Err("ErrIndexOutOfRange")
    ELSE Ok(Tuple([k \in 1..depth |-> Sibling(tree[k], index \div Pow2(k - 1))]))

(***************************************************************************)
(* Beacon-chain data.  One chain is modelled: a slot determines its beacon *)
(* state (and hence its fork), so the cache key (slot, fork) is the slot,  *)
(* which is all that ProveValidatorAgainstValidatorList hands to           *)
(* ComputeValidatorTree.                                                   *)
(***************************************************************************)
Slots == {1, 2}

\* The validators of the beacon state at a slot: slot + 1 of them.
ValidatorsAt(slot) ==
    Tuple([k \in 1..(slot + 1) |->
            [pubkey |-> 10 * slot + k, withdrawal_credentials |-> 1,
             effective_balance |-> 32, slashed |-> (k = 2),
             activation_eligibility_epoch |-> 0, activation_epoch |-> slot,
             exit_epoch |-> 255 + k, withdrawable_epoch |-> 256 + k]])

\* A VersionedBeaconState: of a supported version, or of one whose accessors
\* (Slot, Validators) fail.
BeaconStates ==
    {[version |-> "deneb", slot |-> s] : s \in Slots}
        \cup {[version |-> "unknown", slot |-> 1]}

StateSlot(st) == IF st.version = "deneb" THEN Ok(st.slot) ELSE Err("ErrStateAccess")
StateValidators(st) ==
    IF st.version = "deneb" THEN Ok(ValidatorsAt(st.slot)) ELSE Err("ErrStateAccess")

\* phase0.Validator.HashTreeRoot(), as an injective term
ValidatorHashTreeRoot(v) == <<"V", v>>

\* The 8 field chunks of a validator, in the order used for hashing
ConvertValidatorToValidatorFields(v) ==
    << HashPair(<<"K", v.pubkey, 0>>, <<"K", v.pubkey, 1>>),
       <<"W", v.withdrawal_credentials>>,
       BigToLittleEndian(v.effective_balance),
       BigToLittleEndian(IF v.slashed THEN 1 ELSE 0),
       BigToLittleEndian(v.activation_eligibility_epoch),
       BigToLittleEndian(v.activation_epoch),
       BigToLittleEndian(v.exit_epoch),
       BigToLittleEndian(v.withdrawable_epoch) >>

\* The validator tree: depth ValidatorListMerkleSubtreeNumLayers over the
\* validators' hash-tree-roots
ComputeValidatorTreeFromValidators(validators) ==
    ComputeMerkleTreeFromLeaves(
        Tuple([k \in 1..Len(validators) |-> ValidatorHashTreeRoot(validators[k])]),
        ValidatorListMerkleSubtreeNumLayers)

\* hash-tree-root of the validators list: mix_in_length(R, count)
ValidatorListRoot(validators) ==
    MixInLength(MerkleRoot(ComputeValidatorTreeFromValidators(validators)), Len(validators))

\* One root per immediate field of the state container (field f is entry f + 1)
ComputeBeaconStateTopLevelRoots(st) ==
    IF st.version # "deneb" THEN Err("ErrUnknownFork")
    ELSE Ok(Tuple([f \in 1..BeaconStateNumFields |->
                      IF f = ValidatorListIndex + 1 THEN ValidatorListRoot(ValidatorsAt(st.slot))
                      ELSE <<"F", st.slot, f - 1>>]))

TopLevelTree(roots) == ComputeMerkleTreeFromLeaves(roots, BeaconStateMerkleSubtreeNumLayers)

\* Authentication path of a field's root in the state container's tree
ProveBeaconTopLevelRootAgainstBeaconState(roots, fieldIndex) ==
    ComputeMerkleProofFromTree(TopLevelTree(roots), fieldIndex, BeaconStateMerkleSubtreeNumLayers)

\* hash-tree-root of the beacon state
BeaconStateRoot(st) == MerkleRoot(TopLevelTree(ComputeBeaconStateTopLevelRoots(st).val))

\* The block header of a state: its state_root is the state's root
HeaderOf(st) ==
    [Slot |-> st.slot, ProposerIndex |-> 7, ParentRoot |-> <<"R", st.slot, "parent">>,
     StateRoot |-> IF st.version = "deneb" THEN BeaconStateRoot(st) ELSE ZeroLeaf,
     BodyRoot |-> <<"R", st.slot, "body">>]

\* The three siblings from leaf 3 (state_root) to the header root
ProveStateRootAgainstBlockHeader(h) ==
    Ok(<< h.ParentRoot,
          HashPair(BigToLittleEndian(h.Slot), BigToLittleEndian(h.ProposerIndex)),
          HashPair(HashPair(h.BodyRoot, ZeroLeaf), HashPair(ZeroLeaf, ZeroLeaf)) >>)

GetSlotTimestamp(st, h) == GenesisTime + SecondsPerSlot * h.Slot

(***************************************************************************)
(* The proof constructor                                                   *)
(***************************************************************************)
\* (as ProveValidatorAgainstValidatorList, with the length put before the path)
ListProofLengthFirst(validatorTree, validators, validatorIndex) ==
    LET proof == ComputeMerkleProofFromTree(validatorTree, validatorIndex,
                                            ValidatorListMerkleSubtreeNumLayers)
    IN  IF ~proof.ok THEN proof
        ELSE Ok(<<BigToLittleEndian(Len(validators))>> \o proof.val)

\* (as ProveValidatorAgainstValidatorList, with the capacity for the length)
ListProofCapacity(validatorTree, validators, validatorIndex) ==
    LET proof == ComputeMerkleProofFromTree(validatorTree, validatorIndex,
                                            ValidatorListMerkleSubtreeNumLayers)
    IN  IF ~proof.ok THEN proof
        ELSE Ok(Append(proof.val,
                       BigToLittleEndian(Pow2(ValidatorListMerkleSubtreeNumLayers))))

\* ProveValidatorAgainstValidatorList, after ComputeValidatorTree returned
\* validatorTree: the path in the tree, then the length of the list.
ProveValidatorAgainstValidatorList(validatorTree, validators, validatorIndex) ==
    LET proof == ComputeMerkleProofFromTree(validatorTree, validatorIndex,
                                            ValidatorListMerkleSubtreeNumLayers)
    IN  IF ~proof.ok THEN proof
        ELSE Ok(Append(proof.val, BigToLittleEndian(Len(validators))))

\* (as ProveValidatorAgainstBeaconState, with the two proofs appended the
\* other way round)
BeaconStateProofOutsideIn(validatorTree, validators, roots, validatorIndex) ==
    LET validatorListProof == ProveBeaconTopLevelRootAgainstBeaconState(roots, ValidatorListIndex)
        validatorProof == ProveValidatorAgainstValidatorList(validatorTree, validators, validatorIndex)
    IN  IF ~validatorListProof.ok THEN validatorListProof
        ELSE IF ~validatorProof.ok THEN validatorProof
        ELSE Ok(validatorListProof.val \o validatorProof.val)

\* (as ProveValidatorAgainstBeaconState, with the path of the field after
\* `validators` as the top-level path)
BeaconStateProofNextField(validatorTree, validators, roots, validatorIndex) ==
    LET validatorListProof ==
            ProveBeaconTopLevelRootAgainstBeaconState(roots, ValidatorListIndex + 1)
        validatorProof == ProveValidatorAgainstValidatorList(validatorTree, validators, validatorIndex)
    IN  IF ~validatorListProof.ok THEN validatorListProof
        ELSE IF ~validatorProof.ok THEN validatorProof
        ELSE Ok(validatorProof.val \o validatorListProof.val)

\* ProveValidatorAgainstBeaconState, after ComputeValidatorTree returned
\* validatorTree: append(validatorProof, validatorListProof...)
ProveValidatorAgainstBeaconState(validatorTree, validators, roots, validatorIndex) ==
    LET validatorListProof == ProveBeaconTopLevelRootAgainstBeaconState(roots, ValidatorListIndex)
        validatorProof == ProveValidatorAgainstValidatorList(validatorTree, validators, validatorIndex)
    IN  IF ~validatorListProof.ok THEN validatorListProof
        ELSE IF ~validatorProof.ok THEN validatorProof
        ELSE Ok(validatorProof.val \o validatorListProof.val)

(***************************************************************************)
(* State.  Each caller (a goroutine using the shared EigenPodProofs) is at *)
(* one place of one call: pc is "idle", "lookup" (about to call            *)
(* ComputeValidatorTree for validatorIndices[i]), "build" (building the    *)
(* tree), "wait" (waiting for another caller's build), "prove" (holding    *)
(* the tree, about to extract the proof) or "done" (the call returned).    *)
(***************************************************************************)
Procs == {1, 2}

VARIABLES
    cache,      \* the validator-tree cache: a set of [key, tree, created_at]
    inflight,   \* the keys whose tree is being built
    now,        \* the clock, in seconds
    crashed,    \* the program died of a panic
    pc,         \* per caller: where it is
    call,       \* per caller: the api called, the beacon state and the indices given
    i,          \* per caller: the position in validatorIndices (1-based)
    tree,       \* per caller: the validator tree ComputeValidatorTree returned
    out,        \* per caller: the result under construction
    ret,        \* per caller: what the call returned
    builds,     \* per caller: tree constructions this call performed
    started,    \* per caller: the clock when the call began
    cache0,     \* per caller: the cache's entries (key, created_at) when the call began
    served      \* per caller: the cache entry the last lookup returned, and when

\* The command-line helpers (cli/core/utils.go)
VARIABLES
    gpc,        \* GetCheckpointTimestampAndBeaconState: the request it waits for
    glocal,     \* its locals: checkpointTimestamp, blockRoot, beaconStateId
    events,     \* the tracing callbacks it made, in order
    fetched,    \* the requests it sent to the beacon node, in order
    gret,       \* what it returned
    sorted,     \* SortByStatus: the map, the order it was iterated in, the result
    account,    \* PrepareAccount: the arguments and the result
    dryRun      \* withDryRun: the options passed, those options afterwards, the result

cliVars == <<gpc, glocal, events, fetched, gret, sorted, account, dryRun>>

proverVars == <<cache, inflight, now, crashed, pc, call, i, tree, out, ret, builds, started,
                cache0, served>>

vars == <<proverVars, cliVars>>

NoCall == [api |-> "none", state |-> [version |-> "unknown", slot |-> 1], indices |-> <<>>]
NoOut == [OracleTimestamp |-> 0, StateRootProof |-> <<>>, ValidatorIndices |-> <<>>,
          ValidatorFieldsProofs |-> <<>>, ValidatorFields |-> <<>>]
NoRet == [status |-> "none"]
NoServed == [key |-> 0, created_at |-> 0, at |-> 0]

NoLocals == [checkpointTimestamp |-> 0, blockRoot |-> <<>>, beaconStateId |-> ""]

Init ==
    /\ cache = {}
    /\ inflight = {}
    /\ now = 0
    /\ crashed = FALSE
    /\ pc = [p \in Procs |-> "idle"]
    /\ call = [p \in Procs |-> NoCall]
    /\ i = [p \in Procs |-> 0]
    /\ tree = [p \in Procs |-> <<>>]
    /\ out = [p \in Procs |-> NoOut]
    /\ ret = [p \in Procs |-> NoRet]
    /\ builds = [p \in Procs |-> 0]
    /\ started = [p \in Procs |-> 0]
    /\ cache0 = [p \in Procs |-> {}]
    /\ served = [p \in Procs |-> NoServed]
    /\ gpc = "idle"
    /\ glocal = NoLocals
    /\ events = <<>>
    /\ fetched = <<>>
    /\ gret = NoRet
    /\ sorted = NoRet
    /\ account = NoRet
    /\ dryRun = NoRet

(***************************************************************************)
(* Inputs                                                                  *)
(***************************************************************************)
\* Validator indices a caller may ask for: an odd one, an even one (in range
\* at slot 2 only) and the first one past the tree's capacity.
IndexChoices == {1, 2, Pow2(ValidatorListMerkleSubtreeNumLayers)}

RECURSIVE SeqsUpTo(_, _)
SeqsUpTo(S, n) ==
    IF n = 0 THEN {<<>>}
    ELSE LET shorter == SeqsUpTo(S, n - 1)
         IN  shorter \cup {Append(q, x) : q \in {r \in shorter : Len(r) = n - 1}, x \in S}

\* The calls of the sequential specification
Calls ==
    {[api |-> "containers", state |-> st, header |-> HeaderOf(st), indices |-> ix] :
        st \in BeaconStates, ix \in SeqsUpTo(IndexChoices, MaxIndices)}
    \cup
    {[api |-> "fields", state |-> st, header |-> HeaderOf(st), indices |-> <<x>>] :
        st \in BeaconStates, x \in IndexChoices}

\* The calls of the concurrent specification: ProveValidatorContainers for
\* validator 1 of a state
ConcurrentCalls ==
    {c \in Calls : /\ c.state.version = "deneb"
                   /\ c.api = "containers"
                   /\ c.indices = <<1>>}

(***************************************************************************)
(* The validator-tree cache (ComputeValidatorTree)                         *)
(***************************************************************************)
\* (as CacheKey, with the validator index handed over for the slot)
CacheKeyOfIndex(c, validatorIndex) == validatorIndex

\* The key ProveValidatorAgainstValidatorList looks the tree up under: the
\* slot of the state
CacheKey(c, validatorIndex) == StateSlot(c.state).val

\* An entry is served while now - created_at <= ttl
Fresh(e, t) == t - e.created_at <= oracleStateCacheExpirySeconds

EntriesOf(c, key) == {e \in c : e.key = key}

\* Which entries a cache holds: each entry's key and creation time
Entries(c) == {[key |-> e.key, created_at |-> e.created_at] : e \in c}

\* Insertion replaces the key's entry
Insert(c, e) == (c \ EntriesOf(c, e.key)) \cup {e}

(***************************************************************************)
(* Actions                                                                 *)
(***************************************************************************)
Returned(p, r) ==
    /\ pc' = [pc EXCEPT ![p] = "done"]
    /\ ret' = [ret EXCEPT ![p] = r]

Failure(kind) == [status |-> "error", err |-> kind]
Success(v) == [status |-> "ok", val |-> v]

\* ProveValidatorContainers / ProveValidatorFields up to the first
\* ProveValidatorAgainstBeaconState: the state's accessors, the top-level roots,
\* the state-root proof and the allocation of the result.
Call(p, c) ==
    /\ ~crashed
    /\ pc[p] = "idle"
    /\ call' = [call EXCEPT ![p] = [api |-> c.api, state |-> c.state, indices |-> c.indices]]
    /\ started' = [started EXCEPT ![p] = now]
    /\ cache0' = [cache0 EXCEPT ![p] = Entries(cache)]
    /\ builds' = [builds EXCEPT ![p] = 0]
    /\ served' = [served EXCEPT ![p] = NoServed]
    /\ tree' = [tree EXCEPT ![p] = <<>>]
    /\ LET oracleBeaconStateSlot == StateSlot(c.state)
           oracleBeaconStateValidators == StateValidators(c.state)
           beaconStateTopLevelRoots == ComputeBeaconStateTopLevelRoots(c.state)
           stateRootProof == ProveStateRootAgainstBlockHeader(c.header)
           n == Len(c.indices)
           params == [OracleTimestamp |-> GetSlotTimestamp(c.state, c.header),
                      StateRootProof |-> [BeaconStateRoot |-> c.header.StateRoot,
                                          StateRootProof |-> stateRootProof.val],
                      ValidatorIndices |-> Tuple([k \in 1..n |-> 0]),
                      ValidatorFieldsProofs |-> Tuple([k \in 1..n |-> <<>>]),
                      ValidatorFields |-> Tuple([k \in 1..n |-> <<>>])]
       IN  IF ~oracleBeaconStateSlot.ok
           THEN Returned(p, Failure(oracleBeaconStateSlot.err))
                /\ out' = [out EXCEPT ![p] = NoOut] /\ i' = [i EXCEPT ![p] = 0]
           ELSE IF ~oracleBeaconStateValidators.ok
           THEN Returned(p, Failure(oracleBeaconStateValidators.err))
                /\ out' = [out EXCEPT ![p] = NoOut] /\ i' = [i EXCEPT ![p] = 0]
           ELSE IF ~beaconStateTopLevelRoots.ok
           THEN Returned(p, Failure(beaconStateTopLevelRoots.err))
                /\ out' = [out EXCEPT ![p] = NoOut] /\ i' = [i EXCEPT ![p] = 0]
           ELSE IF ~stateRootProof.ok
           THEN Returned(p, Failure(stateRootProof.err))
                /\ out' = [out EXCEPT ![p] = NoOut] /\ i' = [i EXCEPT ![p] = 0]
           ELSE IF n = 0
           THEN Returned(p, Success(params))
                /\ out' = [out EXCEPT ![p] = params] /\ i' = [i EXCEPT ![p] = 0]
           ELSE /\ out' = [out EXCEPT ![p] = params]
                /\ i' = [i EXCEPT ![p] = 1]
                /\ pc' = [pc EXCEPT ![p] = "lookup"]
                /\ ret' = [ret EXCEPT ![p] = NoRet]
    /\ UNCHANGED <<cache, inflight, now, crashed>>
    /\ UNCHANGED cliVars

\* (as Lookup, without the wait for a build in flight: every miss builds)
LookupNoSingleFlight(p) ==
    /\ ~crashed
    /\ pc[p] = "lookup"
    /\ LET key == CacheKey(call[p], call[p].indices[i[p]])
           fresh == {e \in EntriesOf(cache, key) : Fresh(e, now)}
       IN  IF fresh # {}
           THEN \E e \in fresh :
                  /\ tree' = [tree EXCEPT ![p] = e.tree]
                  /\ served' = [served EXCEPT ![p] =
                                  [key |-> key, created_at |-> e.created_at, at |-> now]]
                  /\ pc' = [pc EXCEPT ![p] = "prove"]
                  /\ UNCHANGED <<cache, inflight>>
           ELSE /\ cache' = cache \ EntriesOf(cache, key)
                /\ inflight' = inflight \cup {key}
                /\ pc' = [pc EXCEPT ![p] = "build"]
                /\ UNCHANGED <<tree, served>>
    /\ UNCHANGED <<now, crashed, call, i, out, ret, builds, started, cache0>>
    /\ UNCHANGED cliVars

\* ComputeValidatorTree(slot, validators), under the cache's lock: a fresh
\* entry is returned; otherwise the caller waits for the key's build in
\* flight, or discards the expired entry and starts the build.
Lookup(p) ==
    /\ ~crashed
    /\ pc[p] = "lookup"
    /\ LET key == CacheKey(call[p], call[p].indices[i[p]])
           fresh == {e \in EntriesOf(cache, key) : Fresh(e, now)}
       IN  IF fresh # {}
           THEN \E e \in fresh :
                  /\ tree' = [tree EXCEPT ![p] = e.tree]
                  /\ served' = [served EXCEPT ![p] =
                                  [key |-> key, created_at |-> e.created_at, at |-> now]]
                  /\ pc' = [pc EXCEPT ![p] = "prove"]
                  /\ UNCHANGED <<cache, inflight>>
           ELSE IF key \in inflight
           THEN /\ pc' = [pc EXCEPT ![p] = "wait"]
                /\ UNCHANGED <<cache, inflight, tree, served>>
           ELSE /\ cache' = cache \ EntriesOf(cache, key)
                /\ inflight' = inflight \cup {key}
                /\ pc' = [pc EXCEPT ![p] = "build"]
                /\ UNCHANGED <<tree, served>>
    /\ UNCHANGED <<now, crashed, call, i, out, ret, builds, started, cache0>>
    /\ UNCHANGED cliVars

\* The build ends: the entry is inserted and handed to the builder and to
\* every caller waiting for the key.
BuildFinish(p) ==
    /\ ~crashed
    /\ pc[p] = "build"
    /\ LET key == CacheKey(call[p], call[p].indices[i[p]])
           e == [key |-> key, created_at |-> now,
                 tree |-> ComputeValidatorTreeFromValidators(StateValidators(call[p].state).val)]
           receivers == {p} \cup {q \in Procs : /\ pc[q] = "wait"
                                                /\ CacheKey(call[q], call[q].indices[i[q]]) = key}
       IN  /\ cache' = Insert(cache, e)
           /\ inflight' = inflight \ {key}
           /\ tree' = [q \in Procs |-> IF q \in receivers THEN e.tree ELSE tree[q]]
           /\ served' = [q \in Procs |-> IF q \in receivers
                                         THEN [key |-> key, created_at |-> now, at |-> now]
                                         ELSE served[q]]
           /\ pc' = [q \in Procs |-> IF q \in receivers THEN "prove" ELSE pc[q]]
           /\ builds' = [builds EXCEPT ![p] = @ + 1]
    /\ UNCHANGED <<now, crashed, call, i, out, ret, started, cache0>>
    /\ UNCHANGED cliVars

\* (as Fill, with the fields of the validator at the loop position)
FillByPosition(params, k, validatorIndex, proof, validators) ==
    [params EXCEPT !.ValidatorIndices[k] = validatorIndex,
                   !.ValidatorFieldsProofs[k] = proof,
                   !.ValidatorFields[k] = ConvertValidatorToValidatorFields(validators[k])]

\* The body of the loop of ProveValidatorContainers for position k, once the
\* proof is there: the index, the proof and the validator's fields are stored
\* at position k.
Fill(params, k, validatorIndex, proof, validators) ==
    [params EXCEPT !.ValidatorIndices[k] = validatorIndex,
                   !.ValidatorFieldsProofs[k] = proof,
                   !.ValidatorFields[k] =
                       ConvertValidatorToValidatorFields(validators[validatorIndex + 1])]

\* The rest of ProveValidatorAgainstValidatorList and of
\* ProveValidatorAgainstBeaconState for validatorIndices[i], then either the
\* return of ProveValidatorFields or the end of the loop body of
\* ProveValidatorContainers.
Prove(p) ==
    /\ ~crashed
    /\ pc[p] = "prove"
    /\ LET c == call[p]
           validatorIndex == c.indices[i[p]]
           oracleBeaconStateValidators == StateValidators(c.state).val
           beaconStateTopLevelRoots == ComputeBeaconStateTopLevelRoots(c.state).val
           proof == ProveValidatorAgainstBeaconState(tree[p], oracleBeaconStateValidators,
                                                     beaconStateTopLevelRoots, validatorIndex)
       IN  IF ~proof.ok
           THEN /\ Returned(p, Failure(proof.err))
                /\ UNCHANGED <<out, i, crashed>>
           ELSE IF c.api = "fields"
           THEN /\ Returned(p, Success([StateRootProof |-> out[p].StateRootProof,
                                        ValidatorFieldsProof |-> proof.val]))
                /\ UNCHANGED <<out, i, crashed>>
           ELSE IF validatorIndex >= Len(oracleBeaconStateValidators)
           THEN \* oracleBeaconStateValidators[validatorIndex]: index out of range
                /\ crashed' = TRUE
                /\ Returned(p, [status |-> "panic"])
                /\ UNCHANGED <<out, i>>
           ELSE LET filled == Fill(out[p], i[p], validatorIndex, proof.val,
                                       oracleBeaconStateValidators)
                IN  /\ out' = [out EXCEPT ![p] = filled]
                    /\ crashed' = crashed
                    /\ IF i[p] = Len(c.indices)
                       THEN Returned(p, Success(filled)) /\ i' = i
                       ELSE /\ i' = [i EXCEPT ![p] = @ + 1]
                            /\ pc' = [pc EXCEPT ![p] = "lookup"]
                            /\ ret' = ret
    /\ UNCHANGED <<cache, inflight, now, call, tree, builds, started, cache0, served>>
    /\ UNCHANGED cliVars

\* The caller takes the result and is free for its next call
Idle(p) ==
    /\ ~crashed
    /\ pc[p] = "done"
    /\ pc' = [pc EXCEPT ![p] = "idle"]
    /\ call' = [call EXCEPT ![p] = NoCall]
    /\ i' = [i EXCEPT ![p] = 0]
    /\ tree' = [tree EXCEPT ![p] = <<>>]
    /\ out' = [out EXCEPT ![p] = NoOut]
    /\ ret' = [ret EXCEPT ![p] = NoRet]
    /\ builds' = [builds EXCEPT ![p] = 0]
    /\ started' = [started EXCEPT ![p] = 0]
    /\ cache0' = [cache0 EXCEPT ![p] = {}]
    /\ served' = [served EXCEPT ![p] = NoServed]
    /\ UNCHANGED <<cache, inflight, now, crashed>>
    /\ UNCHANGED cliVars

\* The clock advances by dt seconds
Advance(dt) ==
    /\ ~crashed
    /\ now + dt <= MaxTicks * TickStep
    /\ now' = now + dt
    /\ UNCHANGED <<cache, inflight, crashed, pc, call, i, tree, out, ret, builds, started,
                   cache0, served>>
    /\ UNCHANGED cliVars

Tick == Advance(TickStep)

\* Enough time passes for every entry to expire
Lapse == Advance(MaxTicks * TickStep)

\* One caller: each top-level call is synchronous
Next ==
    \/ \E c \in Calls : Call(1, c)
    \/ Lookup(1)
    \/ BuildFinish(1)
    \/ Prove(1)
    \/ Idle(1)
    \/ Tick

Spec == Init /\ [][Next]_vars

\* Concurrent callers of one EigenPodProofs
Step(p) == Lookup(p) \/ BuildFinish(p) \/ Prove(p) \/ Idle(p)

NextConcurrent ==
    \/ \E p \in Procs : \E c \in ConcurrentCalls : Call(p, c)
    \/ \E p \in Procs : Step(p)
    \/ Lapse

\* Caller p is at a step of its own: Lookup, BuildFinish, Prove or Idle
Running(p) == ~crashed /\ pc[p] \in {"lookup", "build", "prove", "done"}

\* Caller p leaves the place it is at.  A running caller's place changes by
\* its own Step only, and its Step is enabled wherever it runs, so weak
\* fairness of Scheduled(p) is weak fairness of Step(p): a goroutine that can
\* run is eventually run.
Scheduled(p) ==
    /\ Running(p)
    /\ \E s \in {"idle", "lookup", "wait", "prove", "done"} :
          s # pc[p] /\ pc' = [pc EXCEPT ![p] = s]

SpecConcurrent ==
    Init /\ [][NextConcurrent]_vars /\ \A p \in Procs : WF_pc(Scheduled(p))

\* The two entry points on one input: caller 1 calls ProveValidatorFields for
\* an index of a state, then caller 2 calls ProveValidatorContainers for the
\* list of that one index of the same state.
CallFields ==
    \E c \in {d \in Calls : d.api = "fields"} : pc[2] = "idle" /\ Call(1, c)

CallContainers ==
    /\ pc[1] = "done"
    /\ \E c \in {d \in Calls : d.api = "containers"} :
          /\ c.state = call[1].state
          /\ c.indices = call[1].indices
          /\ Call(2, c)

NextPair ==
    \/ CallFields
    \/ CallContainers
    \/ \E p \in Procs : Lookup(p) \/ BuildFinish(p) \/ Prove(p)
    \/ Idle(2)
    \/ (pc[2] = "idle" /\ Idle(1))
    \/ Tick

SpecPair == Init /\ [][NextPair]_vars

(***************************************************************************)
(* cli/core/utils.go: GetCheckpointTimestampAndBeaconState.  The function  *)
(* is at one of its four requests (gpc names the request it waits for), or *)
(* has returned.  What the execution node and the beacon node answer is    *)
(* chosen when the answer arrives.                                         *)
(***************************************************************************)
\* A [32]byte with the given first and last byte
RootOf(first, last) ==
    Tuple([k \in 1..ChunkBytes |-> IF k = 1 THEN first ELSE IF k = ChunkBytes THEN last ELSE 0])

\* The values of checkpoint.BeaconBlockRoot
BlockRoots ==
    {RootOf(0, 0), RootOf(0, 1), RootOf(171, 0), RootOf(9, 10), RootOf(16, 255), RootOf(255, 16)}

\* The values of currentCheckpointTimestamp: 0 (no checkpoint) or a slot's time
Timestamps == {0} \cup {GenesisTime + SecondsPerSlot * s : s \in 1..6}

\* The beacon node: the headers it knows by block root (it knows none for
\* RootOf(255, 16)), and the head
BeaconHeaders ==
    {[root |-> RootOf(0, 1), slot |-> 1], [root |-> RootOf(171, 0), slot |-> 2],
     [root |-> RootOf(9, 10), slot |-> 1], [root |-> RootOf(16, 255), slot |-> 2]}
HeadState == [version |-> "deneb", slot |-> 2]

HexDigits == <<"0", "1", "2", "3", "4", "5", "6", "7", "8", "9", "a", "b", "c", "d", "e", "f">>

\* hex.EncodeToString
RECURSIVE EncodeToString(_)
EncodeToString(bytes) ==
    IF bytes = <<>> THEN ""
    ELSE HexDigits[(Head(bytes) \div 16) + 1] \o HexDigits[(Head(bytes) % 16) + 1]
            \o EncodeToString(Tail(bytes))

\* strconv.FormatUint(n, 10)
RECURSIVE FormatUint(_)
FormatUint(n) ==
    IF n < 10 THEN HexDigits[n + 1] ELSE FormatUint(n \div 10) \o HexDigits[(n % 10) + 1]

\* beaconClient.GetBeaconHeader(ctx, blockId), when the node answers
GetBeaconHeader(blockId) ==
    LET found == {h \in BeaconHeaders : "0x" \o EncodeToString(h.root) = blockId}
    IN  IF found = {} THEN Err("ErrNotFound") ELSE Ok(CHOOSE h \in found : TRUE)

\* beaconClient.GetBeaconState(ctx, stateId), when the node answers
GetBeaconState(stateId) ==
    LET found == {st \in BeaconStates : st.version = "deneb" /\ FormatUint(st.slot) = stateId}
    IN  IF stateId = "head" THEN Ok(HeadState)
        ELSE IF found = {} THEN Err("ErrNotFound") ELSE Ok(CHOOSE st \in found : TRUE)

AllZero(s) == \A k \in 1..Len(s) : s[k] = 0

\* A nil *[32]byte
Nil == <<>>

\* GetCurrentCheckpointBlockRoot: an error, or &checkpoint.BeaconBlockRoot
BlockRootAnswers == {Err("ErrRpc")} \cup {Ok(r) : r \in BlockRoots}

OnStartSection(tracing, name) == Append(tracing, <<"start", name>>)
OnEndSection(tracing) == Append(tracing, <<"end", "">>)

GReturned(r) == gpc' = "done" /\ gret' = r

\* Lines 179-182: the call, to the request for the checkpoint timestamp
GetCheckpointTimestampAndBeaconState ==
    /\ gpc = "idle"
    /\ events' = OnStartSection(<<>>, "GetCurrentCheckpoint")
    /\ gpc' = "GetCurrentCheckpoint"
    /\ glocal' = NoLocals
    /\ fetched' = <<>>
    /\ gret' = NoRet
    /\ UNCHANGED <<sorted, account, dryRun, proverVars>>

\* GetCurrentCheckpoint: an error, or the pod's currentCheckpointTimestamp
CheckpointAnswers == {Err("ErrRpc")} \cup {Ok(t) : t \in Timestamps}

\* (as OnCurrentCheckpoint, with the section left open when the next starts)
OnCurrentCheckpointNested ==
    /\ gpc = "GetCurrentCheckpoint"
    /\ \E answer \in CheckpointAnswers :
         IF ~answer.ok
         THEN /\ GReturned(Failure("failed to fetch current checkpoint"))
              /\ UNCHANGED <<glocal, events, fetched>>
         ELSE IF answer.val # 0
         THEN /\ glocal' = [glocal EXCEPT !.checkpointTimestamp = answer.val,
                                          !.beaconStateId = "head"]
              /\ events' = OnStartSection(events, "GetCurrentCheckpointBlockRoot")
              /\ gpc' = "GetCurrentCheckpointBlockRoot"
              /\ UNCHANGED <<fetched, gret>>
         ELSE /\ glocal' = [glocal EXCEPT !.checkpointTimestamp = answer.val,
                                          !.beaconStateId = "head"]
              /\ events' = OnStartSection(events, "GetBeaconState")
              /\ fetched' = Append(fetched, <<"state", "head">>)
              /\ gpc' = "GetBeaconState"
              /\ UNCHANGED gret
    /\ UNCHANGED <<sorted, account, dryRun, proverVars>>

\* Lines 182-195 and 218-223: the timestamp arrives; the next request is for
\* the checkpoint's block root, or, without a checkpoint, for the head state
OnCurrentCheckpoint ==
    /\ gpc = "GetCurrentCheckpoint"
    /\ \E answer \in CheckpointAnswers :
         IF ~answer.ok
         THEN /\ GReturned(Failure("failed to fetch current checkpoint"))
              /\ UNCHANGED <<glocal, events, fetched>>
         ELSE IF answer.val # 0
         THEN /\ glocal' = [glocal EXCEPT !.checkpointTimestamp = answer.val,
                                          !.beaconStateId = "head"]
              /\ events' = OnStartSection(OnEndSection(events), "GetCurrentCheckpointBlockRoot")
              /\ gpc' = "GetCurrentCheckpointBlockRoot"
              /\ UNCHANGED <<fetched, gret>>
         ELSE /\ glocal' = [glocal EXCEPT !.checkpointTimestamp = answer.val,
                                          !.beaconStateId = "head"]
              /\ events' = OnStartSection(OnEndSection(events), "GetBeaconState")
              /\ fetched' = Append(fetched, <<"state", "head">>)
              /\ gpc' = "GetBeaconState"
              /\ UNCHANGED gret
    /\ UNCHANGED <<sorted, account, dryRun, proverVars>>

\* "0x" + hex.EncodeToString((*blockRoot)[:])
HeaderBlockOf(blockRoot) == "0x" \o EncodeToString(blockRoot)

\* Lines 195-211: the block root arrives; the next request is for its header
OnCurrentCheckpointBlockRoot ==
    /\ gpc = "GetCurrentCheckpointBlockRoot"
    /\ \E answer \in BlockRootAnswers :
         IF ~answer.ok
         THEN /\ GReturned(Failure("failed to fetch last checkpoint"))
              /\ UNCHANGED <<glocal, events, fetched>>
         ELSE IF answer.val = Nil
         THEN /\ GReturned(Failure("failed to fetch last checkpoint - nil blockRoot"))
              /\ glocal' = [glocal EXCEPT !.blockRoot = answer.val]
              /\ UNCHANGED <<events, fetched>>
         ELSE IF AllZero(answer.val)
         THEN /\ GReturned(Failure("failed to fetch last checkpoint - empty blockRoot"))
              /\ glocal' = [glocal EXCEPT !.blockRoot = answer.val]
              /\ UNCHANGED <<events, fetched>>
         ELSE /\ glocal' = [glocal EXCEPT !.blockRoot = answer.val]
              /\ events' = OnStartSection(OnEndSection(events), "GetBeaconHeader")
              /\ fetched' = Append(fetched, <<"header", HeaderBlockOf(answer.val)>>)
              /\ gpc' = "GetBeaconHeader"
              /\ UNCHANGED gret
    /\ UNCHANGED <<sorted, account, dryRun, proverVars>>

\* (as BeaconStateIdOf, with the default state id kept)
BeaconStateIdHead(header) == "head"

\* strconv.FormatUint(uint64(header.Header.Message.Slot), 10)
BeaconStateIdOf(header) == FormatUint(header.slot)

\* Lines 211-223: the header arrives (or the request fails); the next request
\* is for the state of the header's slot
OnBeaconHeader ==
    /\ gpc = "GetBeaconHeader"
    /\ \E answer \in {Err("ErrRpc"), GetBeaconHeader(fetched[Len(fetched)][2])} :
         IF ~answer.ok
         THEN /\ GReturned(Failure("failed to fetch beacon header"))
              /\ UNCHANGED <<glocal, events, fetched>>
         ELSE /\ glocal' = [glocal EXCEPT !.beaconStateId = BeaconStateIdOf(answer.val)]
              /\ events' = OnStartSection(OnEndSection(events), "GetBeaconState")
              /\ fetched' = Append(fetched, <<"state", BeaconStateIdOf(answer.val)>>)
              /\ gpc' = "GetBeaconState"
              /\ UNCHANGED gret
    /\ UNCHANGED <<sorted, account, dryRun, proverVars>>

\* Lines 223-229: the state arrives (or the request fails); the call returns
OnBeaconState ==
    /\ gpc = "GetBeaconState"
    /\ \E answer \in {Err("ErrRpc"), GetBeaconState(fetched[Len(fetched)][2])} :
         IF ~answer.ok
         THEN /\ GReturned(Failure("failed to fetch beacon state"))
              /\ UNCHANGED events
         ELSE /\ events' = OnEndSection(events)
              /\ GReturned([status |-> "ok", timestamp |-> glocal.checkpointTimestamp,
                            state |-> answer.val])
    /\ UNCHANGED <<glocal, fetched, sorted, account, dryRun, proverVars>>

\* The caller takes the result
GetCheckpointDone ==
    /\ gpc = "done"
    /\ gpc' = "idle"
    /\ glocal' = NoLocals
    /\ events' = <<>>
    /\ fetched' = <<>>
    /\ gret' = NoRet
    /\ UNCHANGED <<sorted, account, dryRun, proverVars>>

NextCheckpoint ==
    \/ GetCheckpointTimestampAndBeaconState
    \/ OnCurrentCheckpoint
    \/ OnCurrentCheckpointBlockRoot
    \/ OnBeaconHeader
    \/ OnBeaconState
    \/ GetCheckpointDone

SpecCheckpoint == Init /\ [][NextCheckpoint]_vars

(***************************************************************************)
(* cli/core/utils.go: SortByStatus                                         *)
(***************************************************************************)
\* The values a map may hold: one core.Validator per index at most
ValidatorValues ==
    [Index : 1..MaxValidatorIndex,
     Status : {ValidatorStatusInactive, ValidatorStatusActive, ValidatorStatusWithdrawn},
     IsAwaitingActivationQueue : BOOLEAN]

\* map[string]Validator, as the set of its values
ValidatorMaps ==
    {m \in SUBSET ValidatorValues : \A v, w \in m : v.Index = w.Index => v = w}

\* The orders `range` may visit a map in: any
IterationOrders(m) ==
    {Tuple(f) : f \in {g \in [1..Cardinality(m) -> m] :
                          \A j, k \in 1..Cardinality(m) : g[j] = g[k] => j = k}}

\* sort.Slice(s, func(i, j) bool { return s[i].Index < s[j].Index })
RECURSIVE InsertByIndex(_, _)
InsertByIndex(s, v) ==
    IF s = <<>> THEN <<v>>
    ELSE IF v.Index < Head(s).Index THEN <<v>> \o s
    ELSE <<Head(s)>> \o InsertByIndex(Tail(s), v)

RECURSIVE SortSlice(_)
SortSlice(s) == IF s = <<>> THEN s ELSE InsertByIndex(SortSlice(Tail(s)), Head(s))

IsAwaiting(v) == v.Status = ValidatorStatusInactive /\ v.IsAwaitingActivationQueue
IsInactive(v) == v.Status = ValidatorStatusInactive /\ ~v.IsAwaitingActivationQueue
IsActive(v) == v.Status = ValidatorStatusActive
IsWithdrawn(v) == v.Status = ValidatorStatusWithdrawn

\* SortByStatus, the map visited in the given order
SortByStatus(order) ==
    [awaitingActivationQueueValidators |-> SelectSeq(order, IsAwaiting),
     inactiveValidators |-> SortSlice(SelectSeq(order, IsInactive)),
     activeValidators |-> SortSlice(SelectSeq(order, IsActive)),
     withdrawnValidators |-> SortSlice(SelectSeq(order, IsWithdrawn))]

CallSortByStatus ==
    /\ sorted = NoRet
    /\ \E m \in ValidatorMaps : \E order \in IterationOrders(m) :
         sorted' = [status |-> "ok", validators |-> m, order |-> order,
                    val |-> SortByStatus(order)]
    /\ UNCHANGED <<gpc, glocal, events, fetched, gret, account, dryRun, proverVars>>

SpecSort == Init /\ [][CallSortByStatus]_vars

(***************************************************************************)
(* cli/core/utils.go: PrepareAccount and withDryRun.  A *big.Int is <<>>   *)
(* (nil) or <<n>>; a *string is NilString or a pointer to a string.        *)
(***************************************************************************)
NilString == [nil |-> TRUE, val |-> ""]
StringPtr(str) == [nil |-> FALSE, val |-> str]

\* The private key PrepareAccount signs with when it is given none
RandomPrivateKey == "372d94b8645091147a5dfc10a454d0d539773d2431293bf0a195b44fa5ddbb33"

\* The hex strings that are private keys, among those tried
PrivateKeys ==
    {RandomPrivateKey, "4c0883a69102937d6231471b5dbb6204fe5129617082792ae468d01a3f362318"}

\* The `owner` arguments tried: nil, empty, keys, and a string that is no key
Owners == {NilString} \cup {StringPtr(str) : str \in PrivateKeys \cup {"", "0xnokey"}}

\* The chainID arguments tried
ChainIDs == {<<>>, <<1>>, <<17000>>}

\* crypto.HexToECDSA
HexToECDSA(hexkey) ==
    IF hexkey \in PrivateKeys THEN Ok([D |-> hexkey]) ELSE Err("invalid hex private key")

\* crypto.PubkeyToAddress(privateKey.Public())
PubkeyToAddress(privateKey) == <<"address", privateKey.D>>

\* bind.NewKeyedTransactorWithChainID
NewKeyedTransactorWithChainID(privateKey, chainID) ==
    IF chainID = <<>> THEN Err("ErrNoChainID")
    ELSE Ok([From |-> PubkeyToAddress(privateKey), Nonce |-> <<>>,
             Signer |-> <<"signer", privateKey.D, chainID>>,
             Value |-> <<>>, GasPrice |-> <<>>, GasFeeCap |-> <<>>, GasTipCap |-> <<>>,
             GasLimit |-> 0, Context |-> "background", NoSend |-> FALSE])

\* (as PrepareAccount, with NoSend set together with the default gas values)
PrepareAccountNoSendWithDefaults(owner, chainID, noSend) ==
    IF noSend
    THEN LET isSimulatingGas == ~owner.nil /\ owner.val # ""
             senderPk == IF owner.nil \/ owner.val = "" THEN RandomPrivateKey ELSE owner.val
             privateKey == HexToECDSA(senderPk)
             auth == NewKeyedTransactorWithChainID(privateKey.val, chainID)
         IN  IF ~privateKey.ok THEN privateKey
             ELSE IF ~auth.ok THEN auth
             ELSE Ok([FromAddress |-> PubkeyToAddress(privateKey.val),
                      PublicKey |-> <<>>,
                      TransactionOptions |->
                          IF ~isSimulatingGas
                          THEN [auth.val EXCEPT !.GasPrice = <<>>, !.GasFeeCap = <<10>>,
                                                !.GasTipCap = <<2>>, !.GasLimit = 21000,
                                                !.NoSend = TRUE]
                          ELSE auth.val,
                      IsDryRun |-> TRUE])
    ELSE LET privateKey == HexToECDSA(owner.val)
             auth == NewKeyedTransactorWithChainID(privateKey.val, chainID)
         IN  IF owner.nil THEN Err("no owner")
             ELSE IF ~privateKey.ok THEN privateKey
             ELSE IF ~auth.ok THEN auth
             ELSE Ok([FromAddress |-> PubkeyToAddress(privateKey.val),
                      PublicKey |-> <<"public", privateKey.val.D>>,
                      TransactionOptions |-> auth.val,
                      IsDryRun |-> noSend])

\* PrepareAccount
PrepareAccount(owner, chainID, noSend) ==
    IF noSend
    THEN LET isSimulatingGas == ~owner.nil /\ owner.val # ""
             senderPk == IF owner.nil \/ owner.val = "" THEN RandomPrivateKey ELSE owner.val
             privateKey == HexToECDSA(senderPk)
             auth == NewKeyedTransactorWithChainID(privateKey.val, chainID)
             defaults == IF ~isSimulatingGas
                         THEN [auth.val EXCEPT !.GasPrice = <<>>, !.GasFeeCap = <<10>>,
                                               !.GasTipCap = <<2>>, !.GasLimit = 21000]
                         ELSE auth.val
         IN  IF ~privateKey.ok THEN privateKey
             ELSE IF ~auth.ok THEN auth
             ELSE Ok([FromAddress |-> PubkeyToAddress(privateKey.val),
                      PublicKey |-> <<>>,
                      TransactionOptions |-> [defaults EXCEPT !.NoSend = TRUE],
                      IsDryRun |-> TRUE])
    ELSE LET privateKey == HexToECDSA(owner.val)
             auth == NewKeyedTransactorWithChainID(privateKey.val, chainID)
         IN  IF owner.nil THEN Err("no owner")
             ELSE IF ~privateKey.ok THEN privateKey
             ELSE IF ~auth.ok THEN auth
             ELSE Ok([FromAddress |-> PubkeyToAddress(privateKey.val),
                      PublicKey |-> <<"public", privateKey.val.D>>,
                      TransactionOptions |-> auth.val,
                      IsDryRun |-> noSend])

CallPrepareAccount ==
    /\ account = NoRet
    /\ \E owner \in Owners : \E chainID \in ChainIDs : \E noSend \in BOOLEAN :
         account' = [status |-> "returned", owner |-> owner, chainID |-> chainID,
                     noSend |-> noSend, ret |-> PrepareAccount(owner, chainID, noSend)]
    /\ UNCHANGED <<gpc, glocal, events, fetched, gret, sorted, dryRun, proverVars>>

\* The *bind.TransactOpts tried as argument of withDryRun
TransactOpts ==
    [From : {<<"address", RandomPrivateKey>>}, Nonce : {<<>>, <<7>>},
     Signer : {<<"signer", RandomPrivateKey, <<1>>>>}, Value : {<<>>, <<0>>},
     GasPrice : {<<>>, <<10>>}, GasFeeCap : {<<>>, <<10>>}, GasTipCap : {<<>>, <<2>>},
     GasLimit : {0, 21000}, Context : {"background"}, NoSend : BOOLEAN]

\* (as withDryRun, with the two fields set in the options passed in, which
\* are returned)
withDryRunInPlace(opts) ==
    LET set == [opts EXCEPT !.GasLimit = 0, !.NoSend = TRUE]
    IN  [opts |-> set, val |-> set, allocated |-> FALSE]

\* withDryRun: what the options passed in hold afterwards, the options
\* returned, and whether these are a new object
withDryRun(opts) ==
    [opts |-> opts,
     val |-> [From |-> opts.From, Nonce |-> opts.Nonce, Signer |-> opts.Signer,
              Value |-> opts.Value, GasPrice |-> opts.GasPrice,
              GasFeeCap |-> opts.GasFeeCap, GasTipCap |-> opts.GasTipCap,
              GasLimit |-> 0, Context |-> opts.Context, NoSend |-> TRUE],
     allocated |-> TRUE]

CallWithDryRun ==
    /\ dryRun = NoRet
    /\ \E opts \in TransactOpts :
         dryRun' = [status |-> "returned", arg |-> opts, ret |-> withDryRun(opts)]
    /\ UNCHANGED <<gpc, glocal, events, fetched, gret, sorted, account, proverVars>>

NextAccount == CallPrepareAccount \/ CallWithDryRun

SpecAccount == Init /\ [][NextAccount]_vars

(***************************************************************************)
(* What the claims speak of                                                *)
(***************************************************************************)
Depth == ValidatorListMerkleSubtreeNumLayers
TopDepth == BeaconStateMerkleSubtreeNumLayers

\* The root of the subtree at the given level and position (0-based) of the
\* tree over the leaves zero-padded
RECURSIVE SubtreeRoot(_, _, _)
SubtreeRoot(leaves, level, pos) ==
    IF level = 0 THEN (IF pos + 1 <= Len(leaves) THEN leaves[pos + 1] ELSE ZeroLeaf)
    ELSE <<"H", SubtreeRoot(leaves, level - 1, 2 * pos),
                SubtreeRoot(leaves, level - 1, 2 * pos + 1)>>

\* The sibling met at the given level when climbing from leaf `index`
PathSibling(leaves, level, index) ==
    LET pos == index \div Pow2(level)
    IN  SubtreeRoot(leaves, level, IF pos % 2 = 0 THEN pos + 1 ELSE pos - 1)

\* pack_u64_le(n): byte k of the chunk is digit k of n in base 256
RECURSIVE Base256Digit(_, _)
Base256Digit(n, k) == IF k = 1 THEN n % 256 ELSE Base256Digit(n \div 256, k - 1)
PackU64LE(n) == <<"B", Tuple([k \in 1..ChunkBytes |-> IF k <= 8 THEN Base256Digit(n, k) ELSE 0])>>

\* The little-endian u64 in the first 8 bytes of a chunk
RECURSIVE LittleEndianValue(_, _)
LittleEndianValue(bytes, k) ==
    IF k > 8 THEN 0 ELSE bytes[k] + 256 * LittleEndianValue(bytes, k + 1)

\* A sibling decodes to n: it is a chunk whose first 8 bytes are n.  (A digest
\* is taken not to decode to a list length.)
DecodesTo(root, n) == root[1] = "B" /\ LittleEndianValue(root[2], 1) = n

\* Standard verification: climb from the leaf, hashing each sibling on the
\* side the index bit names
RECURSIVE Climb(_, _, _)
Climb(node, proof, index) ==
    IF proof = <<>> THEN node
    ELSE Climb(IF index % 2 = 0 THEN <<"H", node, Head(proof)>>
                                ELSE <<"H", Head(proof), node>>,
               Tail(proof), index \div 2)

ValidatorLeaves(st) ==
    Tuple([k \in 1..Len(ValidatorsAt(st.slot)) |-> <<"V", ValidatorsAt(st.slot)[k]>>])
Count(st) == Len(ValidatorsAt(st.slot))

\* The proofs a call returned, each with the index it is for
Proofs(p) ==
    IF ret[p].status # "ok" THEN {}
    ELSE IF call[p].api = "fields"
    THEN {[index |-> call[p].indices[1], proof |-> ret[p].val.ValidatorFieldsProof]}
    ELSE {[index |-> call[p].indices[k], proof |-> ret[p].val.ValidatorFieldsProofs[k]] :
             k \in 1..Len(call[p].indices)}

\* C1: every proof a call returns is the validator's Depth-sibling path in the
\* validator tree, then the length sibling, then the path of the validators
\* field in the beacon-state tree, in this order and nothing else.
C1_ProofIsLeafLengthTopLevel ==
    \A p \in Procs : \A r \in Proofs(p) :
        LET st == call[p].state
            roots == ComputeBeaconStateTopLevelRoots(st).val
        IN  /\ Len(r.proof) = Depth + 1 + TopDepth
            /\ \A k \in 1..Depth :
                  r.proof[k] = PathSibling(ValidatorLeaves(st), k - 1, r.index)
            /\ r.proof[Depth + 1] = PackU64LE(Count(st))
            /\ \A k \in 1..TopDepth :
                  r.proof[Depth + 1 + k] = PathSibling(roots, k - 1, ValidatorListIndex)

C1_Witness ==
    /\ pc[1] = "done" /\ ret[1].status = "ok"
    /\ call[1].api = "containers" /\ call[1].indices = <<2, 1>>

\* C2: the proof returned for an in-range index verifies: climbing from the
\* validator's hash-tree-root through the proof's siblings gives the returned
\* BeaconStateRoot, which is the header's state root.
C2_ProofVerifies ==
    \A p \in Procs : \A r \in Proofs(p) :
        LET st == call[p].state
            gindex == r.index + Pow2(Depth + 1) * ValidatorListIndex
        IN  r.index < Count(st) =>
              /\ ret[p].val.StateRootProof.BeaconStateRoot = HeaderOf(st).StateRoot
              /\ Climb(<<"V", ValidatorsAt(st.slot)[r.index + 1]>>, r.proof, gindex)
                    = ret[p].val.StateRootProof.BeaconStateRoot

C2_Witness ==
    /\ pc[1] = "done" /\ ret[1].status = "ok"
    /\ call[1].api = "fields" /\ call[1].indices = <<2>>
    /\ builds[1] = 0

\* C3: the list proof (the first Depth + 1 siblings of a returned proof) ends
\* with the length chunk: 32 bytes, the little-endian encoding of the number
\* of validators of the state, not of the capacity 2^Depth.
C3_LengthChunkIsLast ==
    \A p \in Procs : \A r \in Proofs(p) :
        LET listProof == SubSeq(r.proof, 1, Depth + 1)
            last == listProof[Len(listProof)]
        IN  /\ last = PackU64LE(Count(call[p].state))
            /\ Len(last[2]) = 32
            /\ last # PackU64LE(Pow2(Depth))

C3_Witness ==
    /\ pc[1] = "done" /\ ret[1].status = "ok"
    /\ call[1].state.slot = 2 /\ call[1].indices = <<2>>
    /\ \E r \in Proofs(1) : r.proof[Depth + 1][2][1] = 3

\* C4, as stated: the penultimate sibling of the list proof decodes to the
\* number of validators.
C4_PenultimateDecodesToCount ==
    \A p \in Procs : \A r \in Proofs(p) :
        LET listProof == SubSeq(r.proof, 1, Depth + 1)
        IN  DecodesTo(listProof[Len(listProof) - 1], Count(call[p].state))

\* C4, amended: the last sibling of the list proof decodes to the number of
\* validators; in the returned proof it is followed by the TopDepth siblings
\* of the top-level path only.
C4_LastDecodesToCount ==
    \A p \in Procs : \A r \in Proofs(p) :
        LET listProof == SubSeq(r.proof, 1, Depth + 1)
        IN  /\ DecodesTo(listProof[Len(listProof)], Count(call[p].state))
            /\ DecodesTo(r.proof[Len(r.proof) - TopDepth], Count(call[p].state))

C4_Witness ==
    /\ pc[1] = "done" /\ ret[1].status = "ok"
    /\ call[1].state.slot = 1 /\ call[1].indices = <<1, 1>>
    /\ \A r \in Proofs(1) : LittleEndianValue(r.proof[Depth + 1][2], 1) = 2

\* C5, as stated: a call given an index >= the number of validators returns
\* an error.
C5_OutOfRangeFails ==
    \A p \in Procs :
        (/\ pc[p] = "done"
         /\ \E k \in 1..Len(call[p].indices) : call[p].indices[k] >= Count(call[p].state))
        => ret[p].status = "error"

\* C6, as stated: a call that returns an error leaves the cache as it was
\* when the call began.
C6_FailureLeavesCache ==
    \A p \in Procs :
        (pc[p] = "done" /\ ret[p].status = "error") => Entries(cache) = cache0[p]

\* The key a caller's current lookup is for
KeyOf(p) == CacheKey(call[p], call[p].indices[i[p]])

\* The proof a call computes for an index when the cache is empty: from a
\* tree built of the state's validators
ColdProof(st, index) ==
    ProveValidatorAgainstBeaconState(ComputeValidatorTreeFromValidators(ValidatorsAt(st.slot)),
                                     ValidatorsAt(st.slot),
                                     ComputeBeaconStateTopLevelRoots(st).val, index).val

\* C7: a call that finds its slot's tree in the cache, and ends while that
\* entry is within the TTL, builds no tree; a call that lasts no longer than
\* the TTL builds at most one, however many indices it looks the tree up for;
\* and what a call returns is what it returns with an empty cache.
C7_CacheHitWithinTTL ==
    \A p \in Procs :
        pc[p] # "idle" =>
          /\ (\E e \in cache0[p] : /\ e.key = call[p].state.slot
                                   /\ now - e.created_at <= oracleStateCacheExpirySeconds)
                => builds[p] = 0
          /\ now - started[p] <= oracleStateCacheExpirySeconds => builds[p] <= 1
          /\ \A r \in Proofs(p) : r.proof = ColdProof(call[p].state, r.index)

C7_Witness ==
    /\ pc[1] = "done" /\ ret[1].status = "ok" /\ builds[1] = 0
    /\ call[1].api = "containers" /\ call[1].indices = <<1, 2>>
    /\ now > started[1]
    /\ \E e \in cache0[1] : e.key = call[1].state.slot /\ now - e.created_at = 300

\* C8: the cache never holds two entries under one key; the entry a lookup
\* returns is at most 300 s old; while a caller builds, the expired entry is
\* gone; and the entry the cache then holds under the key is the one built.
C8_CacheExpiry ==
    /\ \A e1, e2 \in cache : e1.key = e2.key => e1 = e2
    /\ \A p \in Procs :
         /\ served[p] # NoServed => served[p].at - served[p].created_at <= 300
         /\ pc[p] = "build" => EntriesOf(cache, KeyOf(p)) = {}
         /\ pc[p] = "prove" =>
              EntriesOf(cache, KeyOf(p)) =
                 {[key |-> KeyOf(p), created_at |-> served[p].created_at, tree |-> tree[p]]}

C8_Witness ==
    /\ pc[1] = "prove" /\ builds[1] = 1
    /\ \E e \in cache0[1] : e.key = KeyOf(1) /\ served[1].created_at - e.created_at > 300
    /\ Cardinality(EntriesOf(cache, KeyOf(1))) = 1

\* C9: at most one caller builds a key's tree at a time; a caller waits only
\* while the key's build is in flight; callers handed the same entry hold the
\* same tree; an entry, once in the cache, is not changed; and every waiting
\* caller's call returns.
C9_Safety ==
    /\ \A p, q \in Procs : (pc[p] = "build" /\ pc[q] = "build" /\ KeyOf(p) = KeyOf(q)) => p = q
    /\ inflight = {KeyOf(p) : p \in {q \in Procs : pc[q] = "build"}}
    /\ \A q \in Procs : pc[q] = "wait" => KeyOf(q) \in inflight
    /\ \A p, q \in Procs :
          (pc[p] = "prove" /\ pc[q] = "prove" /\ served[p].key = served[q].key
              /\ served[p].created_at = served[q].created_at) => tree[p] = tree[q]

C9_SingleFlight ==
    /\ []C9_Safety
    /\ [][\A e \in cache : \A f \in cache' :
             (e.key = f.key /\ e.created_at = f.created_at) => e = f]_vars
    /\ \A q \in Procs : (pc[q] = "wait") ~> (pc[q] = "done")

C9_Witness ==
    /\ pc[1] = "prove" /\ pc[2] = "prove"
    /\ builds[1] = 1 /\ builds[2] = 0
    /\ served[1] = served[2] /\ tree[1] = tree[2]
    /\ ~(\E e \in cache0[2] : e.key = KeyOf(2))

\* C10: a successful ProveValidatorContainers returns three lists as long as
\* validatorIndices; at each position the index is the one requested there,
\* the proof is the proof for that index and the fields are those of the
\* validator at that index; equal indices give equal entries.
C10_OutputAlignment ==
    \A p \in Procs :
        (ret[p].status = "ok" /\ call[p].api = "containers") =>
            LET v == ret[p].val
                ix == call[p].indices
                st == call[p].state
            IN  /\ Len(v.ValidatorIndices) = Len(ix)
                /\ Len(v.ValidatorFieldsProofs) = Len(ix)
                /\ Len(v.ValidatorFields) = Len(ix)
                /\ \A k \in 1..Len(ix) :
                     /\ v.ValidatorIndices[k] = ix[k]
                     /\ Len(v.ValidatorFieldsProofs[k]) = Depth + 1 + TopDepth
                     /\ \A l \in 1..Depth :
                          v.ValidatorFieldsProofs[k][l]
                             = PathSibling(ValidatorLeaves(st), l - 1, ix[k])
                     /\ Len(v.ValidatorFields[k]) = 8
                     /\ v.ValidatorFields[k]
                          = ConvertValidatorToValidatorFields(ValidatorsAt(st.slot)[ix[k] + 1])
                /\ \A j, k \in 1..Len(ix) :
                     ix[j] = ix[k] => /\ v.ValidatorFieldsProofs[j] = v.ValidatorFieldsProofs[k]
                                      /\ v.ValidatorFields[j] = v.ValidatorFields[k]

C10_Witness ==
    /\ pc[1] = "done" /\ ret[1].status = "ok"
    /\ call[1].api = "containers" /\ call[1].indices = <<1, 1>>
    /\ builds[1] = 2

\* C14, as stated: ProveValidatorFields(header, state, v) and
\* ProveValidatorContainers(header, state, [v]) both fail or both succeed, and
\* on success return the same state-root proof and the same validator proof.
C14_FieldsAgreesWithContainers ==
    (pc[1] = "done" /\ pc[2] = "done") =>
        /\ (ret[1].status = "ok") <=> (ret[2].status = "ok")
        /\ ret[1].status = "ok" =>
              /\ ret[1].val.StateRootProof = ret[2].val.StateRootProof
              /\ ret[1].val.ValidatorFieldsProof = ret[2].val.ValidatorFieldsProofs[1]

\* C11: a successful GetCheckpointTimestampAndBeaconState returns the
\* timestamp it read; with a non-zero timestamp it asked for the header at
\* "0x" + hex of the block root it read and for the state of that header's
\* slot, and returns that state; with a zero timestamp it asked for "head"
\* only and returns the head state; and with a non-zero timestamp and a nil or
\* all-zero block root it returns an error and has sent no request to the
\* beacon node.
C11_StateChosenByTimestamp ==
    /\ gret.status = "ok" =>
         /\ gret.timestamp = glocal.checkpointTimestamp
         /\ glocal.checkpointTimestamp # 0 =>
              \E h \in BeaconHeaders :
                  /\ h.root = glocal.blockRoot
                  /\ gret.state = [version |-> "deneb", slot |-> h.slot]
                  /\ Len(fetched) = 2
                  /\ fetched[1][1] = "header" /\ Len(fetched[1][2]) = 2 + 2 * ChunkBytes
                  /\ fetched[2][1] = "state" /\ fetched[2][2] # "head"
         /\ glocal.checkpointTimestamp = 0 =>
              /\ gret.state = HeadState
              /\ fetched = << <<"state", "head">> >>
    /\ (/\ gpc \notin {"idle", "GetCurrentCheckpoint", "GetCurrentCheckpointBlockRoot"}
        /\ glocal.checkpointTimestamp # 0
        /\ (glocal.blockRoot = Nil \/ AllZero(glocal.blockRoot)))
         => gpc = "done" /\ gret.status = "error" /\ fetched = <<>>

C11_Witness ==
    /\ gret.status = "ok"
    /\ glocal.checkpointTimestamp # 0
    /\ glocal.blockRoot = RootOf(9, 10)
    /\ gret.state.slot = 1

\* The names of the sections started, in order
SectionsStarted ==
    Tuple([k \in 1..((Len(events) + 1) \div 2) |-> events[2 * k - 1][2]])

IsPrefix(a, b) == Len(a) <= Len(b) /\ a = SubSeq(b, 1, Len(a))

\* C15: the tracing callbacks alternate start, end, start, ... (so at most one
\* section is open and none nests); the sections started are, in order,
\* GetCurrentCheckpoint, then with a non-zero timestamp
\* GetCurrentCheckpointBlockRoot and GetBeaconHeader, then GetBeaconState; and
\* when the call returns successfully each of them was started and ended.
C15_SectionsInOrder ==
    LET order == IF glocal.checkpointTimestamp # 0
                 THEN <<"GetCurrentCheckpoint", "GetCurrentCheckpointBlockRoot",
                        "GetBeaconHeader", "GetBeaconState">>
                 ELSE <<"GetCurrentCheckpoint", "GetBeaconState">>
    IN  /\ \A k \in 1..Len(events) :
              events[k][1] = (IF k % 2 = 1 THEN "start" ELSE "end")
        /\ IsPrefix(SectionsStarted, order)
        /\ gpc \notin {"idle", "done"} => Len(events) % 2 = 1 /\ events[Len(events)][2] = gpc
        /\ gret.status = "ok" => Len(events) % 2 = 0 /\ SectionsStarted = order

C15_Witness ==
    /\ gret.status = "ok"
    /\ Len(events) = 8

\* A list is in order of ascending Index
Ascending(list) == \A j, k \in 1..Len(list) : j < k => list[j].Index < list[k].Index

\* C12, as stated: each of the four lists SortByStatus returns is in order of
\* ascending Validator.Index.
C12_ListsAscending ==
    sorted.status = "ok" =>
        /\ Ascending(sorted.val.awaitingActivationQueueValidators)
        /\ Ascending(sorted.val.inactiveValidators)
        /\ Ascending(sorted.val.activeValidators)
        /\ Ascending(sorted.val.withdrawnValidators)

\* C13: PrepareAccount with noSend = true, when it succeeds, returns an Owner
\* with IsDryRun = true whose TransactionOptions have NoSend = true, whatever
\* the owner; and withDryRun returns newly allocated options with
\* NoSend = true and GasLimit = 0, and leaves the options passed in as they
\* were.
C13_DryRunSafety ==
    /\ (account.status = "returned" /\ account.noSend /\ account.ret.ok) =>
          /\ account.ret.val.IsDryRun
          /\ account.ret.val.TransactionOptions.NoSend
    /\ dryRun.status = "returned" =>
          /\ dryRun.ret.allocated
          /\ dryRun.ret.val.NoSend
          /\ dryRun.ret.val.GasLimit = 0
          /\ dryRun.ret.opts = dryRun.arg

C13_Witness ==
    /\ account.status = "returned" /\ account.noSend /\ account.ret.ok
    /\ account.owner.val \in PrivateKeys /\ account.owner.val # RandomPrivateKey
    /\ dryRun.status = "returned"
    /\ ~dryRun.arg.NoSend /\ dryRun.arg.GasLimit = 21000

====
